---- MODULE Spec2Model ----
(***************************************************************************)
(* Science Assessment Generator (streamlit_app.py).                        *)
(*                                                                         *)
(* Two state machines are modelled.                                        *)
(*                                                                         *)
(*  Spec      the Streamlit session: each render runs the script top to    *)
(*            bottom with the widgets' current values; st.session_state    *)
(*            ('last_params', 'last_results') is what survives from one    *)
(*            render to the next.  A render that has to generate is split  *)
(*            at its get_response calls, the only points where the script  *)
(*            waits for the outside world.                                 *)
(*                                                                         *)
(*  SpecLoop  the while loop of lines 299-315 (the adaptive resume loop),  *)
(*            taken as an algorithm over the texts its sub-requests        *)
(*            return.  No item type of the selectbox (line 152) selects    *)
(*            this branch, so Spec never enters it; and the call of line   *)
(*            304 passes seven positional arguments to the five            *)
(*            parameters of get_response (CallShape, Binds), so SpecLoop   *)
(*            describes what the loop computes from the texts a            *)
(*            get_response that accepts the call returns.                  *)
(*                                                                         *)
(* The variables sent, texts, view, shown and error record what a render   *)
(* did (the requests it sent, the texts they returned, what it put on the  *)
(* page); stored_run records which run wrote the slot; n and coop record the *)
(* sub-requests of the loop and whether every text so far had its highest  *)
(* marker at the upper bound of its range.                                 *)
(***************************************************************************)
EXTENDS Integers, Sequences, FiniteSets, TLC

(***************************************************************************)
(* Bounds of the model.                                                    *)
(***************************************************************************)
LastGradeUnit == 2
MaxItems == 3
MaxTotal == 12
MaxBatches == 3

(***************************************************************************)
(* Program constants.                                                      *)
(***************************************************************************)
FirstGrade == 6
NumGrades == 3
NumUnits == 6
SmallCount == 3
batch_size == 10

None == <<>>

Min(a, b) == IF a <= b THEN a ELSE b

(***************************************************************************)
(* Texts.  A text is a sequence of tokens: a marker "Item n:", a marker    *)
(* "Question n:", a newline, or any other word.                            *)
(***************************************************************************)
Item(k) == [label |-> "Item", num |-> k]
Question(k) == [label |-> "Question", num |-> k]
Word == [label |-> "word", num |-> 0]
Newline == [label |-> "nl", num |-> 0]

\* The pieces of a text between its newlines.
RECURSIVE Pieces(_)
Pieces(text) ==
    IF text = <<>> THEN <<<<>>>>
    ELSE LET rest == Pieces(Tail(text))
         IN  IF Head(text).label = "nl" THEN <<<<>>>> \o rest
             ELSE <<<<Head(text)>> \o rest[1]>> \o Tail(rest)

\* A split that drops the empty lines.
SplitNonEmpty(text) == SelectSeq(Pieces(text), LAMBDA line : line # <<>>)

\* text.split("\n"): the lines of a text, the empty ones included.
Split(text) == Pieces(text)

\* len(text.split("\n")): one more than the number of newlines.
RECURSIVE NumLines(_)
NumLines(text) ==
    IF text = <<>> THEN 1
    ELSE (IF Head(text).label = "nl" THEN 1 ELSE 0) + NumLines(Tail(text))

(***************************************************************************)
(* The widgets (lines 136-198) and the parameter tuple (line 207).         *)
(***************************************************************************)
\* The grade and unit selectboxes (lines 138-146): grades 6..8, units 1..6.
\* The model offers the first LastGradeUnit pairs of a walk that changes both.
GradeUnits ==
    {<<FirstGrade + ((k - 1) % NumGrades), 1 + ((k - 1) % NumUnits)>> :
        k \in 1..LastGradeUnit}
ItemTypes ==
    {"Multiple Choice", "Multiple Select", "Technology Enhanced",
     "Cluster", "Evidence-Based", "Constructed Response"}

\* The number selectbox offered for an item type (lines 156-175).
Counts(item_type) ==
    IF item_type \in {"Cluster", "Evidence-Based", "Constructed Response"}
    THEN 1..SmallCount
    ELSE 3..MaxItems

\* Standards (lines 186-190): the empty text (0) or a text (1).
StandardsTexts == {0, 1}

\* will_do is the will_do.csv row of the grade_unit (lines 192-197).
WillDoOf(grade, unit) == <<grade, unit>>

\* Every tuple (grade, unit, item_type, num_items, standards, will_do) the
\* widgets can produce.
Params ==
    UNION {{<<gu[1], gu[2], t, c, s, WillDoOf(gu[1], gu[2])>> : c \in Counts(t)} :
        gu \in GradeUnits, t \in ItemTypes, s \in StandardsTexts}

\* all([grade, unit, item_type, num_items, standards, will_do]) (line 334).
AllFilled(p) == p[5] # 0

(***************************************************************************)
(* get_response (lines 81-120) and its call sites.                         *)
(***************************************************************************)
GetResponseParams == <<"grade", "item_type", "num_items", "standards", "will_do">>

\* What a call site passes: positional arguments and keyword names.
CallShape(item_type) ==
    IF item_type = "Cluster"
    THEN [pos |-> 7, kw |-> {"item_start", "item_end", "batch_num", "te_type"}]
    ELSE IF item_type \in {"Evidence-Based", "Constructed Response",
                           "Multiple Choice", "Multiple Select", "Technology Enhanced"}
    THEN [pos |-> 5, kw |-> {}]
    ELSE [pos |-> 7, kw |-> {}]

\* Python binds a call when every positional argument has a parameter, every
\* keyword names a parameter not bound positionally, and no parameter is left.
Binds(call) ==
    /\ call.pos <= Len(GetResponseParams)
    /\ call.kw = {GetResponseParams[i] : i \in (call.pos + 1)..Len(GetResponseParams)}

\* The branch of lines 230, 275, 286, 297.
Policy(item_type) ==
    IF item_type = "Cluster" THEN "cluster"
    ELSE IF item_type = "Evidence-Based" THEN "ebsr"
    ELSE IF item_type \in {"Constructed Response", "Multiple Choice",
                           "Multiple Select", "Technology Enhanced"} THEN "item"
    ELSE "adaptive"

\* The Cluster branch (lines 232-273): the calls it makes for one cluster unit.
\* First the four calls with fixed arguments (lines 233-258).
ClusterFixedCalls ==
    <<[type |-> "MC", num |-> 2, item_start |-> 1, item_end |-> 2, te_type |-> ""],
      [type |-> "MS", num |-> 2, item_start |-> 3, item_end |-> 4, te_type |-> ""],
      [type |-> "TE", num |-> 1, item_start |-> 5, item_end |-> 5,
       te_type |-> " - Drag-and-Drop"],
      [type |-> "TE", num |-> 1, item_start |-> 6, item_end |-> 6,
       te_type |-> " - Hot-Spot"]>>

\* The call for item i of range(7, 9), with its random.choice results
\* (lines 262-270).
RandomCalls(i) ==
    UNION {{[type |-> t, num |-> 1, item_start |-> i, item_end |-> i, te_type |-> s] :
                s \in IF t = "TE"
                      THEN {" - Drag-and-Drop", " - Hot-Spot", " - Inline-Choice",
                            " - Graphing"}
                      ELSE {""}} :
           t \in {"MC", "MS", "TE"}}

\* The sequences of calls one cluster unit may make.
ClusterUnitPlans == {ClusterFixedCalls \o <<a, b>> : a \in RandomCalls(7), b \in RandomCalls(8)}

\* The num_items argument of the calls of lines 279-281 and 290-292.
PerCallItems(item_type) == 1

\* A loop that stops one item early.
RangeDoneEarly(i, num_items) == i >= num_items

\* range(1, num_items + 1) is exhausted.
RangeDone(i, num_items) == i > num_items

FileName(p) ==
    <<p[1], p[2], p[3],
      IF Policy(p[3]) = "ebsr" THEN "Sets.docx"
      ELSE IF Policy(p[3]) = "adaptive" THEN "Item Types.docx" ELSE "Items.docx">>

VARIABLES
    params,         \* the tuple of line 207 in the current render
    button,         \* what st.button returned in the current render
    last_params,    \* st.session_state['last_params']
    last_results,   \* st.session_state['last_results']
    pc,             \* "idle": the render is over; "gen": inside the try block
    all_results,    \* the local of line 226
    doc,            \* the paragraphs added to the Document of line 227
    cr_num,         \* the index of the for loops of lines 277 and 288
    sent,           \* the num_items of each completion request of this render
    texts,          \* the texts those requests returned in this run
    stored_run,     \* the tuple and the texts of the run that wrote last_results
    view,           \* what the render shows
    shown,          \* the output the render shows, None when it shows none
    error           \* the exception the render reported, "none" when none

VARIABLES
    total,          \* line 300
    current,        \* line 301
    start,          \* current when the last sub-request was made
    end,            \* line 303, for the last sub-request
    batch_result,   \* line 304, the last text returned
    n,              \* sub-requests made, counted up to MaxBatches
    coop,           \* every text so far had its top marker at its upper bound
    lpc             \* "loop": at the while test; "done"; "failed"

sessionVars ==
    <<params, button, last_params, last_results, pc, all_results, doc, cr_num,
      sent, texts, stored_run, view, shown, error>>
loopVars == <<total, current, start, end, batch_result, n, coop, lpc>>
vars == <<sessionVars, loopVars>>

(***************************************************************************)
(* The session.                                                            *)
(***************************************************************************)

\* A script that stores the tuple in every render.
ButtonKeyEveryRender(p, b, key) == p

\* Lines 209-211: the button stores the tuple and clears the results.
ButtonKey(p, b, key) == IF b THEN p ELSE key

\* A handler that also clears the results when the tuple has changed.
ButtonResultsClearOnChange(p, b, key, res) == IF b \/ key # p THEN None ELSE res

\* A handler that stores the tuple and leaves the results.
ButtonResultsKept(p, b, key, res) == res

ButtonResults(p, b, key, res) == IF b THEN None ELSE res

\* A comparison that leaves num_items out of the key.
CacheHitIgnoringCount(p, key, res) ==
    /\ res # None
    /\ key # None
    /\ \A i \in {1, 2, 3, 5, 6} : key[i] = p[i]

\* Line 213: the stored results are shown.
CacheHit(p, key, res) == key = p /\ res # None

\* A guard that generates whenever every field is filled.
MustGenerateWhenFilled(p, key) == AllFilled(p)

\* Line 223: the script generates.
MustGenerate(p, key) == key = p

LoopIdle ==
    /\ total = 0
    /\ current = 0
    /\ start = 0
    /\ end = 0
    /\ batch_result = <<>>
    /\ n = 0
    /\ coop = TRUE
    /\ lpc = "off"

\* The first render of a session: the widgets' defaults, an empty session state
\* (lines 202-205), no click.
Init ==
    /\ \E s \in StandardsTexts :
            params = <<FirstGrade, 1, "Multiple Choice", 3, s, WillDoOf(FirstGrade, 1)>>
    /\ button = FALSE
    /\ last_params = None
    /\ last_results = None
    /\ pc = "idle"
    /\ all_results = <<>>
    /\ doc = <<>>
    /\ cr_num = 1
    /\ sent = <<>>
    /\ texts = <<>>
    /\ stored_run = None
    /\ view = IF AllFilled(params) THEN "blank" ELSE "warning"
    /\ shown = None
    /\ error = "none"
    /\ LoopIdle

\* One run of the script with widget values p and button value b, up to the
\* first get_response call if it generates (lines 202-229, 334-335).
Render(p, b) ==
    /\ pc = "idle"
    /\ params' = p
    /\ button' = b
    /\ last_params' = ButtonKey(p, b, last_params)
    /\ last_results' = ButtonResults(p, b, last_params, last_results)
    /\ all_results' = <<>>
    /\ doc' = <<>>
    /\ cr_num' = 1
    /\ sent' = <<>>
    /\ texts' = <<>>
    /\ stored_run' = IF last_results' = None THEN None ELSE stored_run
    /\ error' = "none"
    /\ IF CacheHit(p, last_params', last_results')
       THEN /\ view' = "cached"
            /\ shown' = last_results'
            /\ pc' = "idle"
       ELSE IF MustGenerate(p, last_params')
       THEN /\ view' = "status"
            /\ shown' = None
            /\ pc' = "gen"
       ELSE /\ view' = IF AllFilled(p) THEN "blank" ELSE "warning"
            /\ shown' = None
            /\ pc' = "idle"
    /\ UNCHANGED loopVars

\* The texts a completion may return to the session: one line, or three lines
\* with an empty one in the middle.
SessionTexts == {<<Word>>, <<Word, Newline, Newline, Word>>}

\* A get_response call of lines 279 or 290 that returns (lines 279-284, 290-295).
Return(t) ==
    /\ pc = "gen"
    /\ Policy(params[3]) \in {"ebsr", "item"}
    /\ ~RangeDone(cr_num, params[4])
    /\ Binds(CallShape(params[3]))
    /\ sent' = Append(sent, PerCallItems(params[3]))
    /\ all_results' = all_results \o t \o <<Newline, Newline>>
    /\ doc' = doc \o Split(t)
    /\ texts' = Append(texts, t)
    /\ cr_num' = cr_num + 1
    /\ UNCHANGED <<params, button, last_params, last_results, stored_run, pc, view, shown,
                   error>>
    /\ UNCHANGED loopVars

\* An except block that stores what the run had accumulated.
ResultsAfterErrorPartial(res, partial, p) ==
    IF partial # <<>> THEN <<partial, FileName(p), <<>>>> ELSE res

\* The results the session keeps when the try block raises (lines 329-333):
\* the except block does not touch the session state.
ResultsAfterError(res, partial, p) == res

\* The completion raises inside get_response (line 111); lines 329-333 report it.
Raise ==
    /\ pc = "gen"
    /\ Policy(params[3]) \in {"ebsr", "item"}
    /\ ~RangeDone(cr_num, params[4])
    /\ Binds(CallShape(params[3]))
    /\ sent' = Append(sent, PerCallItems(params[3]))
    /\ error' = "CompletionError"
    /\ view' = "error"
    /\ pc' = "idle"
    /\ last_results' = ResultsAfterError(last_results, all_results, params)
    /\ all_results' = <<>>
    /\ doc' = <<>>
    /\ cr_num' = 1
    /\ texts' = <<>>
    /\ stored_run' = IF last_results' = last_results THEN stored_run ELSE <<params, texts>>
    /\ UNCHANGED <<params, button, last_params, shown>>
    /\ UNCHANGED loopVars

\* The call does not bind to get_response's parameters: Python raises
\* TypeError before get_response runs, and lines 329-333 report it.
ArgumentError ==
    /\ pc = "gen"
    /\ ~RangeDone(cr_num, params[4])
    /\ ~Binds(CallShape(params[3]))
    /\ error' = "TypeError"
    /\ view' = "error"
    /\ pc' = "idle"
    /\ last_results' = ResultsAfterError(last_results, all_results, params)
    /\ all_results' = <<>>
    /\ doc' = <<>>
    /\ cr_num' = 1
    /\ texts' = <<>>
    /\ stored_run' = IF last_results' = last_results THEN stored_run ELSE <<params, texts>>
    /\ UNCHANGED <<params, button, last_params, sent, shown>>
    /\ UNCHANGED loopVars

\* Lines 317-328: the document is saved, the results stored and shown.
Finish ==
    /\ pc = "gen"
    /\ Policy(params[3]) \in {"ebsr", "item"}
    /\ RangeDone(cr_num, params[4])
    /\ last_results' = <<all_results, FileName(params), doc>>
    /\ stored_run' = <<params, texts>>
    /\ shown' = last_results'
    /\ view' = "fresh"
    /\ pc' = "idle"
    /\ all_results' = <<>>
    /\ doc' = <<>>
    /\ cr_num' = 1
    /\ UNCHANGED <<params, button, last_params, sent, texts, error>>
    /\ UNCHANGED loopVars

Next ==
    \/ \E p \in Params, b \in BOOLEAN : Render(p, b)
    \/ \E t \in SessionTexts : Return(t)
    \/ Raise
    \/ ArgumentError
    \/ Finish

Spec == Init /\ [][Next]_vars

(***************************************************************************)
(* The adaptive resume loop (lines 299-315) over the texts returned.       *)
(***************************************************************************)

\* list(re.finditer(r"Item (\d+):", batch_result)) (line 310).
Matches(text) == SelectSeq(text, LAMBDA tok : tok.label = "Item")

\* An upper bound that is not clamped to the total.
EndUnclamped(cur, tot) == cur + batch_size - 1

\* Line 303.
End(cur, tot) == Min(cur + batch_size - 1, tot)

\* A fallback that stays on the upper bound.
NextCurrentNoStep(text, e) ==
    IF Matches(text) # <<>>
    THEN Matches(text)[Len(Matches(text))].num + 1
    ELSE e

\* Lines 311-315: the next value of current.
NextCurrent(text, e) ==
    IF Matches(text) # <<>>
    THEN Matches(text)[Len(Matches(text))].num + 1
    ELSE e + 1

\* The while test of line 302.
LoopRuns(cur, tot) == cur <= tot

\* The numbers of the markers of either label in a text.
MarkerNums(text) ==
    {text[i].num : i \in {j \in 1..Len(text) : text[j].label \in {"Item", "Question"}}}

\* The numbers of the "Item n:" markers in a text.
ItemNums(text) == {text[i].num : i \in {j \in 1..Len(text) : text[j].label = "Item"}}

Max(S) == CHOOSE x \in S : \A y \in S : y <= x

\* The marker numbers a response to a sub-request for [cur, e] may carry: zero,
\* just below the cursor, the two ends of the range and their inner neighbours,
\* and just above the upper bound.
MarkerChoices(cur, e) == {0, cur - 1, cur, e - 1, e, e + 1}

\* The texts a sub-request for [cur, e] may return: no marker (empty, or a
\* word), one "Item k:" marker, two "Item k:" markers in either order or the
\* same twice, or one "Question k:" marker.
LoopTexts(cur, e) ==
    {<<>>, <<Word>>}
        \cup {<<Item(k)>> : k \in MarkerChoices(cur, e)}
        \cup {<<Item(j), Word, Item(k)>> :
                j \in MarkerChoices(cur, e), k \in MarkerChoices(cur, e)}
        \cup {<<Question(k)>> : k \in MarkerChoices(cur, e)}

SessionIdle ==
    /\ params = <<FirstGrade, 1, "Multiple Choice", 3, 0, WillDoOf(FirstGrade, 1)>>
    /\ button = FALSE
    /\ last_params = None
    /\ last_results = None
    /\ pc = "off"
    /\ all_results = <<>>
    /\ doc = <<>>
    /\ cr_num = 1
    /\ sent = <<>>
    /\ texts = <<>>
    /\ stored_run = None
    /\ view = "blank"
    /\ shown = None
    /\ error = "none"

\* Lines 299-301, for any total.
LoopInit ==
    /\ total \in 1..MaxTotal
    /\ current = 1
    /\ start = 0
    /\ end = 0
    /\ batch_result = <<>>
    /\ n = 0
    /\ coop = TRUE
    /\ lpc = "loop"
    /\ SessionIdle

\* One pass of the body whose sub-request returns text t (lines 303-315).
LoopReturn(t) ==
    /\ lpc = "loop"
    /\ LoopRuns(current, total)
    /\ start' = current
    /\ end' = End(current, total)
    /\ batch_result' = t
    /\ current' = NextCurrent(t, end')
    /\ n' = Min(n + 1, MaxBatches)
    /\ coop' = (coop /\ MarkerNums(t) # {} /\ Max(MarkerNums(t) \cup {0}) = end')
    /\ UNCHANGED <<total, lpc>>
    /\ UNCHANGED sessionVars

\* The sub-request raises: the loop is left through the except of line 329.
LoopRaise ==
    /\ lpc = "loop"
    /\ LoopRuns(current, total)
    /\ start' = current
    /\ end' = End(current, total)
    /\ n' = Min(n + 1, MaxBatches)
    /\ lpc' = "failed"
    /\ UNCHANGED <<total, current, batch_result, coop>>
    /\ UNCHANGED sessionVars

\* The while test fails: the loop is over (line 316).
LoopExit ==
    /\ lpc = "loop"
    /\ ~LoopRuns(current, total)
    /\ lpc' = "done"
    /\ UNCHANGED <<total, current, start, end, batch_result, n, coop>>
    /\ UNCHANGED sessionVars

LoopNext ==
    \/ \E t \in LoopTexts(current, End(current, total)) : LoopReturn(t)
    \/ LoopRaise
    \/ LoopExit

SpecLoop == LoopInit /\ [][LoopNext]_vars

\* Every sub-request returns or raises, and the script runs on.
FairSpecLoop == SpecLoop /\ WF_vars(LoopNext)

(***************************************************************************)
(* Properties.                                                             *)
(***************************************************************************)
CeilDiv(a, b) == (a + b - 1) \div b

\* C1: a render shows the stored output, without sending any completion
\* request, if and only if a stored output exists and the current tuple equals
\* the stored key in every field (sent = <<>> tells a render that reused the slot
\* from one that has just filled it); what it shows is the stored output.
C1_CacheReuse ==
    /\ (view = "cached") <=>
            (last_results # None /\ last_params = params /\ sent = <<>>)
    /\ view = "cached" => (shown = last_results /\ pc = "idle")

\* A render has shown a stored output for its tuple.
C1_Witness == view = "cached" /\ last_params = params /\ ~button

\* C2: a generation runs only in a render in which Generate was triggered; in
\* particular a re-render after a failure starts none.
C2_NoAutoRetry == pc = "gen" => button

\* C3 as claimed: once the tuple differs from the stored key, the slot holds no
\* output.
C3_ClearedOnChange ==
    (pc = "idle" /\ last_params # None /\ last_params # params) => last_results = None

\* C3 as amended: a render without a trigger whose tuple differs from the stored
\* key shows no output and leaves the key and the output as they were; a render
\* without a trigger whose tuple equals the key of a stored output shows it.
C3_KeptOnChange ==
    [][/\ (pc = "idle" /\ ~button' /\ params' # last_params) =>
            (/\ last_params' = last_params
             /\ last_results' = last_results
             /\ shown' = None
             /\ pc' = "idle")
       /\ (pc = "idle" /\ ~button' /\ params' = last_params /\ last_results # None) =>
            (/\ view' = "cached"
             /\ shown' = last_results
             /\ last_results' = last_results)]_vars

\* An output is stored for one tuple and the page was rendered with another.
C3_Witness ==
    /\ pc = "idle"
    /\ ~button
    /\ last_results # None
    /\ last_params # params
    /\ shown = None

\* C4: after a failed sub-request the generation is over (no sub-request can
\* follow in that render) and the slot holds no output.
C4_AbortDiscards ==
    view = "error" =>
        /\ pc = "idle"
        /\ last_results = None
        /\ shown = None
        /\ ~ENABLED (\E t \in SessionTexts : Return(t))
        /\ ~ENABLED Raise

\* A completion failed after an earlier sub-request of the same generation had
\* returned.
C4_Witness == view = "error" /\ error = "CompletionError" /\ Len(sent) >= 2

C7_AdaptiveCount ==
    (view = "fresh" /\ params[3] # "Cluster")
        => Len(sent) = CeilDiv(params[4], batch_size)

\* C7 as amended: a finished generation of an item type other than Cluster has
\* sent exactly N completion requests, each for one item.
C7_OnePerItem ==
    (view = "fresh" /\ params[3] # "Cluster")
        => sent = [i \in 1..params[4] |-> 1]

\* A generation of several items of a non-Cluster type has finished.
C7_Witness == view = "fresh" /\ params[3] # "Cluster" /\ params[4] >= 2

C10_EightPerCluster ==
    (/\ pc = "idle"
     /\ params[3] = "Cluster"
     /\ view \in {"fresh", "error"}
     /\ error # "CompletionError")
        => Len(sent) = 8 * params[4]

\* The lines of the texts of a sequence, in order.
RECURSIVE AllLines(_)
AllLines(ts) == IF ts = <<>> THEN <<>> ELSE Split(Head(ts)) \o AllLines(Tail(ts))

RECURSIVE SumLines(_)
SumLines(ts) == IF ts = <<>> THEN 0 ELSE NumLines(Head(ts)) + SumLines(Tail(ts))

\* C11: the document holds one paragraph per line of the batch texts appended
\* so far, empty lines included, in the order of the sub-requests (the two
\* newlines that follow each text in all_results add no paragraph); the stored
\* document of a completed generation holds exactly those of all its texts.
C11_ParagraphPerLine ==
    /\ pc = "gen" =>
            /\ Len(doc) = SumLines(texts)
            /\ doc = AllLines(texts)
            /\ NumLines(all_results) = Len(doc) + Len(texts) + 1
    /\ view = "fresh" =>
            /\ Len(last_results[3]) = SumLines(texts)
            /\ last_results[3] = AllLines(texts)
            /\ Len(texts) = params[4]

\* A generation has completed whose texts held an empty line and a one-line
\* text.
C11_Witness ==
    /\ view = "fresh"
    /\ \E i \in 1..Len(texts) : NumLines(texts[i]) = 3
    /\ \E i \in 1..Len(texts) : NumLines(texts[i]) = 1
    /\ \E i \in 1..Len(last_results[3]) : last_results[3][i] = <<>>

\* C12: a render with a Generate trigger stores the current tuple as the key,
\* empties the slot and starts generating with no request sent yet, also when
\* the slot held an output for that very tuple; the slot stays empty while the
\* generation runs; and it is filled only by the step that follows the last
\* sub-request, with the accumulated text and the saved document, under the key
\* stored at the trigger.
C12_ClearThenPopulate ==
    [][/\ (pc = "idle" /\ button') =>
            (/\ last_params' = params'
             /\ last_results' = None
             /\ pc' = "gen"
             /\ sent' = <<>>
             /\ view' # "cached"
             /\ shown' = None)
       /\ pc' = "gen" => last_results' = None
       /\ (last_results' # None /\ last_results' # last_results) =>
            (/\ pc = "gen"
             /\ last_results = None
             /\ Len(sent) = params[4]
             /\ Len(texts) = params[4]
             /\ last_results' = <<all_results, FileName(params), doc>>
             /\ last_params' = params
             /\ last_params' = last_params
             /\ params' = params)]_vars

\* A generation started by a trigger has filled the slot.
C12_Witness ==
    /\ view = "fresh"
    /\ button
    /\ last_params = params
    /\ last_results # None
    /\ Len(sent) >= 2

RECURSIVE ClusterNums(_)
ClusterNums(k) ==
    IF k = 0 THEN <<>>
    ELSE LET plan == CHOOSE q \in ClusterUnitPlans : TRUE
         IN  [i \in 1..Len(plan) |-> plan[i].num] \o ClusterNums(k - 1)

\* C15: a Cluster generation that ended without a completion failure has sent,
\* for each cluster unit in turn, the six sub-requests of the unit's plan (MC,
\* MS, TE, TE, random, random, for items [1,2],[3,4],[5,5],[6,6],[7,7],[8,8]).
C15_ClusterOrder ==
    (/\ pc = "idle"
     /\ params[3] = "Cluster"
     /\ view \in {"fresh", "error"}
     /\ error # "CompletionError")
        => (view = "fresh" /\ sent = ClusterNums(params[4]))

\* The text a run accumulates from a sequence of texts (lines 282, 293).
RECURSIVE Joined(_)
Joined(ts) ==
    IF ts = <<>> THEN <<>> ELSE Head(ts) \o <<Newline, Newline>> \o Joined(Tail(ts))

\* C16: whenever the slot holds an output, the run that wrote it had exactly the
\* stored key as its tuple and received a text for every one of its
\* sub-requests, and the output is that run's whole text, file name and
\* document.
C16_SlotMatchesKey ==
    last_results # None =>
        /\ last_params # None
        /\ stored_run # None
        /\ stored_run[1] = last_params
        /\ Len(stored_run[2]) = last_params[4]
        /\ last_results = <<Joined(stored_run[2]), FileName(last_params),
                            AllLines(stored_run[2])>>

\* The slot holds an output while the widgets show another tuple, after a
\* later render.
C16_Witness ==
    /\ last_results # None
    /\ params # last_params
    /\ pc = "idle"
    /\ view = "blank"

\* C17: a completion request is sent only by a run whose tuple equals the
\* stored key and whose slot is empty (the slot is filled only when that run
\* has completed); while no key is stored no request is sent, and the key is
\* first stored by a trigger; a render whose tuple differs from the stored key
\* sends nothing and leaves the key and the slot as they were.
C17_RequestsOnlyForKey ==
    [][/\ (pc' = "gen" \/ sent' # <<>>) =>
            (/\ last_params' # None
             /\ last_params' = params'
             /\ last_results' = None \/ (pc' = "idle" /\ view' = "fresh"))
       /\ sent' # sent /\ sent' # <<>> =>
            (pc = "gen" /\ last_params = params /\ last_results = None)
       /\ last_params' = None => (sent' = <<>> /\ pc' = "idle")
       /\ (last_params = None /\ last_params' # None) => button'
       /\ (pc = "idle" /\ params' # last_params') =>
            (/\ last_params' = last_params
             /\ last_results' = last_results
             /\ pc' = "idle"
             /\ sent' = <<>>)]_vars

\* A render without a trigger is sending requests for the stored key.
C17_Witness ==
    /\ pc = "gen"
    /\ ~button
    /\ Len(sent) >= 1
    /\ last_params = params

====
